---------------------------- MODULE Spec2Model ----------------------------
(***************************************************************************)
(* Betelgeuse Notion client: the pagination walks of NotionClient          *)
(* (query_database, retrieve_block_children) and the block factory         *)
(* _parse_block_data, modelled from src/nebula_orion/betelgeuse/client.py; *)
(* BaseAPIClient.request from api/base.py and the single retrievals        *)
(* retrieve_page and retrieve_database built on it.                        *)
(*                                                                         *)
(* A walk is a Python generator.  Its position is pc:                      *)
(*   "start"   created, body not begun (nothing runs before the first      *)
(*             next())                                                     *)
(*   "loop"    running, at the head of `while has_more` with has_more true *)
(*   "items"   running, inside `for item_data in results`                  *)
(*   "yielded" suspended at `yield`                                        *)
(*   "done"    returned (StopIteration)                                    *)
(*   "raised"  an exception left the generator                             *)
(***************************************************************************)
EXTENDS Integers, Sequences, FiniteSets, TLC

(***************************************************************************)
(* Bounds of the model.                                                    *)
(***************************************************************************)
MaxCalls == 3
MaxResults == 2
MaxRequests == 2
MaxWalks == 3
MaxWalkCalls == 2

(***************************************************************************)
(* JSON values.  A key that is missing and a key whose value is null are   *)
(* both read with dict.get and give None, so one value stands for both.    *)
(***************************************************************************)
None == "<none>"
Unbound == "<unbound>"

Methods == {"query_database", "retrieve_block_children"}

\* page_size arguments: below, at and above both ends of 1..100
PageSizeArgs == {0 - 1, 0, 1, 100, 101}

\* the opaque cursor the server hands out with its k-th page
CursorNames == <<"c1", "c2", "c3", "c4", "c5">>

\* next_cursor of the k-th list page: missing/null, empty, or its cursor
CursorValues(k) == {None, "", CursorNames[k]}

\* has_more of a list page: true, false, or missing
HasMoreValues == {"true", "false", None}

\* Python truthiness of a value read from JSON or passed as an argument
\* ("{}" and "[]": an empty dict, an empty list)
Truthy(v) == v \notin {None, "", "false", "{}", "[]"}

(***************************************************************************)
(* Item payloads.  shape: a JSON object or anything else.  object: the     *)
(* payload's "object" tag (None: no such key).  type: the payload's "type" *)
(* value.  common: every field the validating base model declares, other   *)
(* than object and type, validates (id, timestamps, parent, and the        *)
(* untyped content fields).  specific: the content field named by the type *)
(* validates against the typed variant.                                    *)
(***************************************************************************)
ObjectTags == {"page", "database", "block", None}

KnownTypes == {"paragraph", "heading_1"}
UnknownTypes == {"image"}
NumberType == "<number 7>"
UnhashableType == "<list ['x']>"
TypeValues == KnownTypes \cup UnknownTypes \cup {None, "", NumberType, UnhashableType}

Payloads == [shape : {"object", "other"}, object : ObjectTags, type : TypeValues,
             common : BOOLEAN, specific : BOOLEAN]

\* variant of LiteralAccepts: the tag is a plain str field
LiteralAccepts_Any(tag, p) == TRUE

\* the field `object: Literal[tag] = tag` of a model accepts the payload's
\* tag: the key is absent (the default applies) or holds exactly the literal
LiteralAccepts(tag, p) == p.object \in {tag, None}

\* the object attribute of a model validated from p
ObjectOf(tag, p) == IF p.object = None THEN tag ELSE p.object

\* BLOCK_TYPE_MAP.get(block_type): the variant class, or None
BLOCK_TYPE_MAP(block_type) ==
    IF block_type \in KnownTypes THEN block_type ELSE None

\* a str instance, as the field `type: str` of Block requires
IsStr(t) == t \in KnownTypes \cup UnknownTypes \cup {""}

\* model_class.model_validate(block_data) succeeds
SpecificValidates(p) == p.common /\ p.specific /\ LiteralAccepts("block", p)

\* Block.model_validate(block_data) succeeds: common fields, a str type and
\* the block tag
BlockValidates(p) == p.common /\ IsStr(p.type) /\ LiteralAccepts("block", p)

Returned(cls, t, tag, tried) ==
    [outcome |-> "return", cls |-> cls, type |-> t, object |-> tag, error |-> None,
     attempts |-> tried]

Raised(e, tried) ==
    [outcome |-> "raise", cls |-> None, type |-> None, object |-> None, error |-> e,
     attempts |-> tried]

\* variant of ParseBase: the generic shape is tried for mapped types only, a
\* type without a mapping is an error
ParseBase_MappedOnly(p, tried) ==
    IF BlockValidates(p) /\ p.type \in KnownTypes
    THEN Returned("Block", p.type, ObjectOf("block", p), Append(tried, "Block"))
    ELSE Raised("BetelgeuseError", Append(tried, "Block"))

\* the generic fallback of _parse_block_data, after `tried` earlier attempts
ParseBase(p, tried) ==
    IF BlockValidates(p)
    THEN Returned("Block", p.type, ObjectOf("block", p), Append(tried, "Block"))
    ELSE Raised("BetelgeuseError", Append(tried, "Block"))

_parse_block_data(p) ==
    IF p.shape # "object" THEN Raised("AttributeError", <<>>)
    ELSE LET block_type == IF Truthy(p.type) THEN p.type ELSE "unknown"
         IN  IF block_type = UnhashableType THEN Raised("TypeError", <<>>)
             ELSE LET model_class == BLOCK_TYPE_MAP(block_type)
                  IN  IF model_class # None
                      THEN IF SpecificValidates(p)
                           THEN Returned(model_class, p.type, ObjectOf("block", p), <<"specific">>)
                           ELSE ParseBase(p, <<"specific">>)
                      ELSE ParseBase(p, <<>>)

(***************************************************************************)
(* Transport outcomes: what self._api_client.request raises or returns.    *)
(***************************************************************************)
TransportErrors == {"NotionAPIError", "NotionRequestError", "BetelgeuseError"}

\* the payloads a list page is filled with: blocks, the same as pages, and
\* an entry that is no JSON object
GoodItem == [shape |-> "object", object |-> "block", type |-> "paragraph",
             common |-> TRUE, specific |-> TRUE]
UnknownItem == [shape |-> "object", object |-> "block", type |-> "image",
                common |-> TRUE, specific |-> FALSE]
BadItem == [shape |-> "object", object |-> "block", type |-> "paragraph",
            common |-> FALSE, specific |-> FALSE]
NonObjectItem == [shape |-> "other", object |-> None, type |-> None,
                  common |-> FALSE, specific |-> FALSE]
AsPage(p) == [p EXCEPT !.object = "page"]

WalkItems(m) ==
    IF m = "query_database"
    THEN {AsPage(GoodItem), AsPage(BadItem), NonObjectItem}
    ELSE {GoodItem, UnknownItem, BadItem, NonObjectItem}

ResultSeqs(m) == UNION {[1..n -> WalkItems(m)] : n \in 0..MaxResults}

\* iterable: the "results" value can be iterated (a list, or the key is
\* missing and the default [] is used); false for null or a number
RaiseReply(e) ==
    [outcome |-> "raise", error |-> e, shape |-> None, object |-> None,
     iterable |-> TRUE, results |-> <<>>, has_more |-> None, next_cursor |-> None]

ReturnReply(shape, tag, it, rs, hm, nc) ==
    [outcome |-> "return", error |-> None, shape |-> shape, object |-> tag,
     iterable |-> it, results |-> rs, has_more |-> hm, next_cursor |-> nc]

\* what the k-th call of a walk of method m may raise or return
Replies(m, k) ==
    {RaiseReply(e) : e \in TransportErrors}
    \cup {ReturnReply("array", None, TRUE, <<>>, None, None),
          ReturnReply("object", None, TRUE, <<>>, None, None)}
    \cup {ReturnReply("object", "page", TRUE, rs, "true", CursorNames[k]) :
             rs \in {<<>>, <<GoodItem>>}}
    \cup {ReturnReply("object", "list", TRUE, rs, hm, nc) :
             rs \in ResultSeqs(m), hm \in HasMoreValues, nc \in CursorValues(k)}
    \cup {ReturnReply("object", "list", FALSE, <<>>, hm, nc) :
             hm \in HasMoreValues, nc \in CursorValues(k)}

(***************************************************************************)
(* The walk's own computations.                                            *)
(***************************************************************************)
\* variant of ClampPageSize: clamps to the nearest end of the range
ClampPageSize_Nearest(p) == IF p < 1 THEN 1 ELSE IF p > 100 THEN 100 ELSE p

\* if not 1 <= page_size <= 100: page_size = 100
ClampPageSize(p) == IF 1 <= p /\ p <= 100 THEN p ELSE 100

\* variant of RequestCursor: the cursor is never put into the request
RequestCursor_Never(c) == None

\* variant of RequestCursor: whatever the cursor is, it is put into the request
RequestCursor_Always(c) == c

\* if start_cursor: body["start_cursor"] = start_cursor
RequestCursor(c) == IF Truthy(c) THEN c ELSE None

\* variant of IsListEnvelope: only the isinstance test
IsListEnvelope_DictOnly(r) == r.shape = "object"

\* isinstance(response_data, dict) and response_data.get("object") == "list"
IsListEnvelope(r) == r.shape = "object" /\ r.object = "list"

\* variant of NextHasMore: a missing has_more defaults to True
NextHasMore_DefaultTrue(r) == r.has_more # "false"

\* has_more = response_data.get("has_more", False), as the while test reads it
NextHasMore(r) == Truthy(r.has_more)

\* start_cursor = response_data.get("next_cursor")
NextCursor(r) == r.next_cursor

\* variant of PageValidates: no field of Page is required
PageValidates_Lenient(p) == p.shape = "object" /\ LiteralAccepts("page", p)

\* Page.model_validate(item_data) succeeds
PageValidates(p) == p.shape = "object" /\ p.common /\ LiteralAccepts("page", p)

\* the outcome of one iteration of the for loop over results:
\* "yield", "skip", or the type of the exception that leaves the generator
QueryItemOutcome(p) ==
    IF PageValidates(p) THEN "yield"
    ELSE IF p.shape = "object" THEN "skip"      \* item_data.get("id", ...)
    ELSE "AttributeError"

\* variant of BlockItemOutcome: only the typed variants are handed over
BlockItemOutcome_TypedOnly(p) ==
    IF _parse_block_data(p).outcome = "return" /\ _parse_block_data(p).cls # "Block"
    THEN "yield"
    ELSE IF p.shape = "object" THEN "skip"
    ELSE "AttributeError"

BlockItemOutcome(p) ==
    IF _parse_block_data(p).outcome = "return" THEN "yield"
    ELSE IF _parse_block_data(p).error = "BetelgeuseError" THEN "skip"
    ELSE IF p.shape = "object" THEN "skip"      \* item_data.get("id")
    ELSE "AttributeError"

ItemOutcome(m, p) ==
    IF m = "query_database" THEN QueryItemOutcome(p) ELSE BlockItemOutcome(p)

\* the object handed to the consumer by `yield`
YieldValue(m, p) ==
    IF m = "query_database"
    THEN [cls |-> "Page", type |-> None, object |-> ObjectOf("page", p)]
    ELSE [cls |-> _parse_block_data(p).cls, type |-> _parse_block_data(p).type,
          object |-> _parse_block_data(p).object]

(***************************************************************************)
(* Bookkeeping of the valid items.  An item is valid when its own parser   *)
(* accepts it.  The valid items of the list pages a walk receives are      *)
(* numbered 1, 2, 3, ... in call order and, within a page, results order.  *)
(***************************************************************************)
ItemIsValid(m, p) ==
    IF m = "query_database" THEN PageValidates(p)
    ELSE _parse_block_data(p).outcome = "return"

RECURSIVE ValidCount(_, _)
ValidCount(m, rs) ==
    IF rs = <<>> THEN 0
    ELSE (IF ItemIsValid(m, Head(rs)) THEN 1 ELSE 0) + ValidCount(m, Tail(rs))

\* the number of the first entry of `rest`, n valid items having been
\* received in all; 0 when that entry is not valid
Serial(m, n, rest) ==
    IF ItemIsValid(m, Head(rest)) THEN n - ValidCount(m, Tail(rest)) ELSE 0

FirstN(n) == [i \in 1..n |-> i]

NoError == [type |-> None, at |-> None, call |-> 0]
Error(t, where, k) == [type |-> t, at |-> where, call |-> k]
NoYield == [cls |-> None, type |-> None, object |-> None]
Pending == [outcome |-> "pending", cls |-> None, type |-> None, object |-> None,
            error |-> None, attempts |-> <<>>]

(***************************************************************************)
(* BaseAPIClient.request and the single retrievals.                        *)
(*                                                                         *)
(* A path is the tuple of its pieces, "/" being a piece of its own, so     *)
(* that f"/v1/pages/{page_id}" is <<"/", "v1", "pages", page_id>>.         *)
(***************************************************************************)
Tokens == {"secret_a", "secret_b"}
\* the method of the direct calls of request; the single retrievals use GET
DirectMethods == {"POST"}
DirectPaths == {<<>>, <<"v1", "users">>, <<"/", "v1", "users">>}
PageIds == {"p1"}
DatabaseIds == {"d1"}

\* variant of StartsWithSlash: any path is taken
StartsWithSlash_Any(path) == TRUE

\* path.startswith("/")
StartsWithSlash(path) == Len(path) > 0 /\ path[1] = "/"

\* variant of get_auth_headers: the header built when the client was made
get_auth_headers_Cached(tok) == [Authorization |-> <<"Bearer ", "secret_a">>]

\* {"Authorization": f"Bearer {self._token}"}
get_auth_headers(tok) == [Authorization |-> <<"Bearer ", tok>>]

(***************************************************************************)
(* Responses.  A body is empty, text that is no JSON, or a JSON document.  *)
(* A document is a JSON object or some other JSON value; of an object the  *)
(* model keeps the keys the code reads: code and message (None: no such    *)
(* key), the object tag, and whether the other fields of a page or         *)
(* database validate.  The objects are error documents, with or without    *)
(* code and message, and payloads, with any tag.  len is the length of the *)
(* body text.                                                              *)
(***************************************************************************)
Statuses == {200, 204, 302, 404}

\* response.ok: the status is no 4xx or 5xx
ResponseOk(status) == status < 400

NoDoc == [shape |-> None, object |-> None, common |-> FALSE, code |-> None,
          message |-> None]

\* the empty dict {}
EmptyDict == [shape |-> "object", object |-> None, common |-> FALSE, code |-> None,
              message |-> None]

JsonObjects ==
    [shape : {"object"}, object : {None}, common : {FALSE},
     code : {None, "object_not_found"}, message : {None, "Could not find page."}]
    \cup [shape : {"object"}, object : ObjectTags, common : BOOLEAN,
          code : {None}, message : {None}]

JsonArray == [shape |-> "other", object |-> None, common |-> FALSE, code |-> None,
              message |-> None]

TextLens == {41, 201}

EmptyBody == [kind |-> "empty", len |-> 0, doc |-> NoDoc]

Bodies ==
    {EmptyBody}
    \cup {[kind |-> "text", len |-> n, doc |-> NoDoc] : n \in TextLens}
    \cup {[kind |-> "json", len |-> 60, doc |-> d] : d \in JsonObjects \cup {JsonArray}}

\* subclasses of requests.exceptions.RequestException the transport raises
RequestExceptions == {"Timeout", "ConnectionError"}

NoResponse == [raised |-> None, status |-> 0, body |-> EmptyBody]

\* what self._session.request raises or returns
TransportOutcomes ==
    {[raised |-> e, status |-> 0, body |-> EmptyBody] : e \in RequestExceptions}
    \cup {[raised |-> None, status |-> st, body |-> b] : st \in Statuses, b \in Bodies}

(***************************************************************************)
(* Exceptions and return values.  raised_by is the function whose raise    *)
(* statement made the exception object; message is a format, the values    *)
(* put into it and the length of the body excerpt put into it.             *)
(***************************************************************************)
Msg(fmt, args, n) == [fmt |-> fmt, args |-> args, excerpt |-> n]
NoMsg == Msg(None, <<>>, 0)

Exc(type, by, status, code, msg, cause) ==
    [type |-> type, raised_by |-> by, status_code |-> status, error_code |-> code,
     message |-> msg, cause |-> cause]

NoExc == Exc(None, None, 0, None, NoMsg, None)

\* `instance` is the identity of a model object: 0 for a value that is not
\* a model object, otherwise the serial number of the call that built it
NoValue == [kind |-> None, cls |-> None, object |-> None, doc |-> NoDoc, instance |-> 0]
JsonValue(d) == [kind |-> "json", cls |-> None, object |-> None, doc |-> d, instance |-> 0]
ModelValue(cls, tag) ==
    [kind |-> "model", cls |-> cls, object |-> tag, doc |-> NoDoc, instance |-> 0]

\* sent: the transport was called; decoded: response.json() was called
Out(sent, t, decoded, kind, value, exc) ==
    [sent |-> sent, received |-> t, decoded |-> decoded, outcome |-> kind,
     value |-> value, error |-> exc]

NoOutcome == Out(FALSE, NoResponse, FALSE, "none", NoValue, NoExc)

\* error_text[:200]
Excerpt(n) == IF n > 200 THEN 200 ELSE n

\* error_text = response.text or "No response body"
ErrorText(body) == IF body.len = 0 THEN "No response body" ELSE "<response.text>"
ErrorTextLen(body) == IF body.len = 0 THEN 16 ELSE body.len

\* variant of DictGet: the default, whatever the dict holds
DictGet_Default(value, default) == default

\* error_data.get(key, default), value being what the key holds
DictGet(value, default) == IF value = None THEN default ELSE value

\* the branch `if not response.ok`
ErrorResponse(t) ==
    IF t.body.kind = "json"
    THEN IF t.body.doc.shape = "object"
         THEN LET error_data == t.body.doc
                  api_error_code == DictGet(error_data.code, "unknown_api_code")
                  api_error_message ==
                      DictGet(error_data.message, "No message provided.")
              IN  Out(TRUE, t, TRUE, "raise", NoValue,
                      Exc("NotionAPIError", "request", t.status, api_error_code,
                          Msg(api_error_message, <<>>, 0), None))
         ELSE \* error_data.get on a list, a str, a number or None
              Out(TRUE, t, TRUE, "raise", NoValue,
                  Exc("AttributeError", "request", 0, None, NoMsg, None))
    ELSE Out(TRUE, t, TRUE, "raise", NoValue,
             Exc("NotionAPIError", "request", t.status, "unknown_error_format",
                 Msg("Unknown error format. Response body: {}...",
                     <<ErrorText(t.body)>>, Excerpt(ErrorTextLen(t.body))),
                 "JSONDecodeError"))

\* variant of NoContent: only the status is looked at
NoContent_StatusOnly(t) == t.status = 204

\* response.status_code == 204 or not response.content
NoContent(t) == t.status = 204 \/ t.body.kind = "empty"

\* variant of SuccessResponse: an undecodable body counts as an API error
SuccessResponse_AsApiError(t) ==
    IF NoContent(t) THEN Out(TRUE, t, FALSE, "return", JsonValue(EmptyDict), NoExc)
    ELSE IF t.body.kind = "json"
    THEN Out(TRUE, t, TRUE, "return", JsonValue(t.body.doc), NoExc)
    ELSE ErrorResponse(t)

\* the success branch
SuccessResponse(t) ==
    IF NoContent(t) THEN Out(TRUE, t, FALSE, "return", JsonValue(EmptyDict), NoExc)
    ELSE IF t.body.kind = "json"
    THEN Out(TRUE, t, TRUE, "return", JsonValue(t.body.doc), NoExc)
    ELSE Out(TRUE, t, TRUE, "raise", NoValue,
             Exc("BetelgeuseError", "request", 0, None,
                 Msg("Failed to decode successful API response JSON: {}...",
                     <<"<response.text>">>, Excerpt(t.body.len)),
                 "JSONDecodeError"))

\* variant of TransportFailure: the exception of the transport is let through
TransportFailure_Unwrapped(t) ==
    Out(TRUE, t, FALSE, "raise", NoValue,
        Exc(t.raised, "transport", 0, None, NoMsg, None))

\* except requests.exceptions.RequestException as req_e
TransportFailure(t) ==
    Out(TRUE, t, FALSE, "raise", NoValue,
        Exc("NotionRequestError", "request", 0, None,
            Msg("HTTP Request failed: {}", <<t.raised>>, 0), t.raised))

\* BaseAPIClient.request, t being what the transport raises or returns
request(path, t) ==
    IF ~StartsWithSlash(path)
    THEN Out(FALSE, NoResponse, FALSE, "raise", NoValue,
             Exc("BetelgeuseError", "request", 0, None,
                 Msg("Invalid API path format: {}", path, 0), None))
    ELSE IF t.raised # None THEN TransportFailure(t)
    ELSE IF ~ResponseOk(t.status) THEN ErrorResponse(t)
    ELSE SuccessResponse(t)

\* Database.model_validate(response_data) succeeds
DatabaseValidates(p) ==
    p.shape = "object" /\ p.common /\ LiteralAccepts("database", p)

\* variant of Reraise: the error is raised anew by the retrieval
Reraise_Anew(r, by) ==
    [r EXCEPT !.error = [r.error EXCEPT !.raised_by = by]]

\* the bare `raise` of `except (NotionAPIError, NotionRequestError)`
Reraise(r, by) == r

\* the try statement shared by retrieve_page and retrieve_database: r is
\* what request raised or returned, validates whether model_validate accepts
\* the value returned
Retrieve(by, cls, tag, r, validates, parse_fmt, unexpected_fmt, id) ==
    IF r.outcome = "return"
    THEN IF validates
         THEN [r EXCEPT !.value = ModelValue(cls, ObjectOf(tag, r.value.doc))]
         ELSE [r EXCEPT !.outcome = "raise", !.value = NoValue,
                        !.error = Exc("BetelgeuseError", by, 0, None,
                                      Msg(parse_fmt, <<id>>, 0), "ValidationError")]
    ELSE IF r.error.type \in {"NotionAPIError", "NotionRequestError"}
    THEN Reraise(r, by)
    ELSE [r EXCEPT !.error = Exc("BetelgeuseError", by, 0, None,
                                 Msg(unexpected_fmt, <<id>>, 0), r.error.type)]

retrieve_page(page_id, t) ==
    LET r == request(<<"/", "v1", "pages", page_id>>, t)
    IN  Retrieve("retrieve_page", "Page", "page", r, PageValidates(r.value.doc),
                 "Failed to parse Page response (ID: {})",
                 "Unexpected error retrieving page {}", page_id)

retrieve_database(database_id, t) ==
    LET r == request(<<"/", "v1", "databases", database_id>>, t)
    IN  Retrieve("retrieve_database", "Database", "database", r,
                 DatabaseValidates(r.value.doc),
                 "Failed to parse Database response (ID: {})",
                 "Unexpected error retrieving database {}", database_id)

\* calls_before: the number of transport calls made before this call
Invocation(op, m, path, id, n) ==
    [op |-> op, method |-> m, path |-> path, id |-> id, calls_before |-> n]
NoInvocation == Invocation(None, None, <<>>, None, 0)

(***************************************************************************)
(* What BaseAPIClient stores.  The client is built with the defaults of    *)
(* config: base_url has its trailing slash stripped, the session is given  *)
(* the common headers, which hold no credential.                           *)
(***************************************************************************)
ConstructedSettings ==
    [base_url |-> "https://api.notion.com", notion_version |-> "2022-06-28",
     timeout |-> "REQUEST_TIMEOUT"]

_get_common_headers(notion_version) ==
    [k \in {"Notion-Version", "Content-Type", "Accept", "User-Agent"} |->
        CASE k = "Notion-Version" -> notion_version
          [] k = "User-Agent" -> "Nebula-Orion (Betelgeuse Module)"
          [] OTHER -> "application/json"]

\* {**a, **b}
MergeHeaders(a, b) ==
    [k \in DOMAIN a \cup DOMAIN b |-> IF k \in DOMAIN b THEN b[k] ELSE a[k]]

\* variant of SessionHeadersAfter: the per-call headers are set on the session
SessionHeadersAfter_Updated(session_headers, auth_headers) ==
    MergeHeaders(session_headers, auth_headers)

\* self._session.headers after request: the merged headers are a new dict
\* handed to the one call, the session's own are not written
SessionHeadersAfter(session_headers, auth_headers) == session_headers

\* variant of Instance: one object per client, handed out again
Instance_Reused(n) == 1

\* model_validate builds a new object at each call; n numbers the calls
Instance(n) == n

\* the result of a retrieval, its model object being the one built by call n
Built(r, n) ==
    IF r.outcome = "return" /\ r.value.kind = "model"
    THEN [r EXCEPT !.value = [r.value EXCEPT !.instance = Instance(n)]]
    ELSE r

\* the model object of an earlier retrieval the caller still holds: the
\* call that returned it and its number among the transport calls, the
\* response it was built from, and the object
NoHeld ==
    [op |-> None, id |-> None, call |-> 0, received |-> NoResponse, value |-> NoValue]

Keep(h, inv, out) ==
    IF out.outcome = "return" /\ out.value.kind = "model"
    THEN [op |-> inv.op, id |-> inv.id, call |-> inv.calls_before + 1,
          received |-> out.received,
          value |-> out.value]
    ELSE h

(***************************************************************************)
(* Construction of NotionClient.  The token argument and the environment   *)
(* variable are None, empty or a token; a fault is an exception raised     *)
(* inside a constructor for a reason other than a missing token.           *)
(***************************************************************************)
TokenArgs == {None, "", "secret_a"}
EnvTokens == {None, "secret_a"}
AuthFaults == {None, "RuntimeError"}
ApiFaults == {None, "TypeError", "AttributeError"}

Constructed(tok) == [outcome |-> "return", _token |-> tok, error |-> NoExc]
ConstructorRaised(e) == [outcome |-> "raise", _token |-> None, error |-> e]

\* APITokenAuth.__init__
APITokenAuth(token, env, fault) ==
    IF fault # None
    THEN ConstructorRaised(Exc(fault, "APITokenAuth", 0, None, NoMsg, None))
    ELSE LET resolved_token == IF Truthy(token) THEN token ELSE env
         IN  IF ~Truthy(resolved_token)
             THEN ConstructorRaised(
                      Exc("AuthenticationError", "APITokenAuth", 0, None,
                          Msg("No API token provided. Please pass it directly or set the '{}' environment variable.",
                              <<"NOTION_API_TOKEN">>, 0), None))
             ELSE Constructed(resolved_token)

\* BaseAPIClient.__init__, called with an APITokenAuth
BaseAPIClient(auth, fault) ==
    IF fault # None
    THEN ConstructorRaised(Exc(fault, "BaseAPIClient", 0, None, NoMsg, None))
    ELSE Constructed(auth._token)

\* variant of InitApiFailure: the exception of BaseAPIClient is let through
InitApiFailure_Bare(e) == e

\* raise AuthenticationError("Failed to initialize API client.") from e
InitApiFailure(e) ==
    Exc("AuthenticationError", "NotionClient", 0, None,
        Msg("Failed to initialize API client.", <<>>, 0), e.type)

\* what a call of the constructor leaves: whether it returned an object,
\* whether self.auth and self._api_client were assigned, how often the
\* constructor of BaseAPIClient was called, and the exception raised
ClientState(state, auth, n, api, tok, e) ==
    [state |-> state, auth |-> auth, api_calls |-> n, _api_client |-> api,
     _token |-> tok, error |-> e]

NoClient == ClientState("none", FALSE, 0, FALSE, None, NoExc)

\* NotionClient.__init__
NotionClient(auth_token, env, auth_fault, api_fault) ==
    LET a == APITokenAuth(auth_token, env, auth_fault)
        b == BaseAPIClient(a, api_fault)
    IN  IF a.outcome = "raise"
        THEN ClientState("failed", FALSE, 0, FALSE, None,
                 IF a.error.type = "AuthenticationError" THEN a.error
                 ELSE Exc("AuthenticationError", "NotionClient", 0, None,
                          Msg("Failed to set up authentication.", <<>>, 0),
                          a.error.type))
        ELSE IF b.outcome = "raise"
        THEN ClientState("failed", TRUE, 1, FALSE, a._token, InitApiFailure(b.error))
        ELSE ClientState("built", TRUE, 1, TRUE, a._token, NoExc)

(***************************************************************************)
(* Several walks on one client.  A generator object keeps its arguments    *)
(* and its locals; the requests it passed to BaseAPIClient.request are     *)
(* recorded with it, and so are the replies.  The pages of these walks     *)
(* hold no items.  The cursor the server hands out with page k of the      *)
(* s-th walk started is WalkCursors[s][k].                                 *)
(***************************************************************************)
Slots == {1, 2}

WalkCursors ==
    << <<"w1c1", "w1c2", "w1c3", "w1c4">>, <<"w2c1", "w2c2", "w2c3", "w2c4">>,
       <<"w3c1", "w3c2", "w3c3", "w3c4">>, <<"w4c1", "w4c2", "w4c3", "w4c4">>,
       <<"w5c1", "w5c2", "w5c3", "w5c4">> >>

\* filter_data and sorts_data: not given (None), given and empty, given
FilterSorts ==
    {<<None, None>>, <<"{}", "[]">>, <<"filter_a", "sorts_a">>}

WalkArgs ==
    {[fn |-> "query_database", id |-> "d1", filter_data |-> fs[1],
      sorts_data |-> fs[2], page_size |-> 50] : fs \in FilterSorts}
    \cup {[fn |-> "retrieve_block_children", id |-> "b1", filter_data |-> None,
           sorts_data |-> None, page_size |-> n] : n \in {101}}

\* an argument of request that is a dict, or is not passed
Dict(d) == [given |-> TRUE, dict |-> d]
NotGiven == [given |-> FALSE, dict |-> [k \in {} |-> None]]

\* variant of RequestBody: filter and sorts are copied whenever they are given
RequestBody_AsGiven(filter_data, sorts_data) ==
    [k \in (IF filter_data # None THEN {"filter"} ELSE {})
           \cup (IF sorts_data # None THEN {"sorts"} ELSE {}) |->
        IF k = "filter" THEN filter_data ELSE sorts_data]

\* request_body = {}; if filter_data: ...; if sorts_data: ...
RequestBody(filter_data, sorts_data) ==
    [k \in (IF Truthy(filter_data) THEN {"filter"} ELSE {})
           \cup (IF Truthy(sorts_data) THEN {"sorts"} ELSE {}) |->
        IF k = "filter" THEN filter_data ELSE sorts_data]

\* d with page_size set, and start_cursor set if the cursor is truthy
Paginated(d, size, cursor) ==
    [k \in DOMAIN d \cup {"page_size"}
           \cup (IF RequestCursor(cursor) # None THEN {"start_cursor"} ELSE {}) |->
        IF k = "page_size" THEN size
        ELSE IF k = "start_cursor" THEN RequestCursor(cursor)
        ELSE d[k]]

\* the arguments of self._api_client.request in one pass of the while loop
WalkRequest(a, cursor) ==
    IF a.fn = "query_database"
    THEN [method |-> "POST", path |-> <<"/", "v1", "databases", a.id, "query">>,
          json_data |-> Dict(Paginated(RequestBody(a.filter_data, a.sorts_data),
                                       ClampPageSize(a.page_size), cursor)),
          query_params |-> NotGiven]
    ELSE [method |-> "GET", path |-> <<"/", "v1", "blocks", a.id, "children">>,
          json_data |-> NotGiven,
          query_params |-> Dict(Paginated([k \in {} |-> None],
                                          ClampPageSize(a.page_size), cursor))]

\* what the k-th call of the s-th walk may raise or return
WalkReplies(s, k) ==
    {RaiseReply("NotionAPIError")}
    \cup {ReturnReply("object", "list", TRUE, <<>>, hm, nc) :
             hm \in {"true", "false"}, nc \in {None, WalkCursors[s][k]}}

\* variant of InitialCursor: the walk starts at the cursor it finds
InitialCursor_Shared(seen) == seen

\* start_cursor: str | None = None
InitialCursor(seen) == None

NoArgs == [fn |-> None, id |-> None, filter_data |-> None, sorts_data |-> None,
           page_size |-> 0]

\* a generator object: serial numbers the walks in the order they started
Generator(a, serial, pos, cursor, more, sent, got) ==
    [args |-> a, serial |-> serial, pc |-> pos, start_cursor |-> cursor,
     has_more |-> more, sent |-> sent, got |-> got]

NoWalk == Generator(NoArgs, 0, "none", None, FALSE, <<>>, <<>>)

VARIABLES
    method,         \* which generator function the walk is
    page_size,      \* local page_size: the argument, then the value in use
    adjusted,       \* the out-of-range branch was taken (its warning logged)
    start_cursor,   \* local start_cursor
    has_more,       \* local has_more
    response_data,  \* local response_data: the envelope of the current page
    results,        \* the entries of results the for loop has yet to take
    pc,             \* position of the generator
    calls,          \* transport calls issued, in order
    replies,        \* what each call raised or returned (envelope only)
    nvalid,         \* number of valid items in the list pages received
    delivered,      \* numbers of the items the consumer received, in order
    yielded,        \* the object handed over by the yield the walk rests at
    error,          \* the exception that reached the consumer
    pulls,          \* number of next() calls made by the consumer
    block_data,     \* argument of a direct call of _parse_block_data
    parsed,         \* what that call returned or raised
    _token,         \* APITokenAuth._token
    auth_lookups,   \* number of get_auth_headers calls made
    http_calls,     \* calls of self._session.request, in order
    invoked,        \* the latest call of request or of a single retrieval
    outcome,        \* what that call returned or raised
    settings,       \* BaseAPIClient.base_url, notion_version and timeout
    _session_headers, \* BaseAPIClient._session.headers
    held,           \* the model object of an earlier retrieval, still held
    client,         \* what the call of NotionClient(...) left
    walks,          \* the generator object each consumer holds
    started         \* number of walks started on the client

walk_vars == <<method, page_size, adjusted, start_cursor, has_more, response_data,
               results, pc, calls, replies, nvalid, delivered, yielded, error, pulls>>

client_vars == <<_token, auth_lookups, http_calls, invoked, outcome,
                 settings, _session_headers, held>>

session_vars == <<client, walks, started>>

vars == <<walk_vars, block_data, parsed, client_vars, session_vars>>

InitTransport ==
    /\ auth_lookups = 0
    /\ http_calls = <<>>
    /\ invoked = NoInvocation
    /\ outcome = NoOutcome
    /\ settings = ConstructedSettings
    /\ _session_headers = _get_common_headers(ConstructedSettings.notion_version)
    /\ held = NoHeld

\* a client built from a token, no walk started on it
InitClient ==
    /\ _token = "secret_a"
    /\ InitTransport
    /\ client = NotionClient("secret_a", None, None, None)
    /\ walks = [slot \in Slots |-> NoWalk]
    /\ started = 0

\* calling a generator function runs none of its body
InitialPc == "start"

\* variant of YieldPc: the item is collected and the loop goes on
YieldPc_NoSuspend == "items"

\* `yield` hands the item over and suspends the generator
YieldPc == "yielded"

InitWalk ==
    /\ adjusted = FALSE
    /\ start_cursor = Unbound
    /\ has_more = Unbound
    /\ response_data = Unbound
    /\ results = <<>>
    /\ pc = InitialPc
    /\ calls = <<>>
    /\ replies = <<>>
    /\ nvalid = 0
    /\ delivered = <<>>
    /\ yielded = NoYield
    /\ error = NoError
    /\ pulls = 0

Init ==
    /\ method \in Methods
    /\ page_size \in PageSizeArgs
    /\ InitWalk
    /\ block_data = GoodItem
    /\ parsed = Pending
    /\ InitClient

\* the consumer's first next(): the body runs up to the while loop
PullFirst ==
    /\ pc = "start"
    /\ pulls' = pulls + 1
    /\ page_size' = ClampPageSize(page_size)
    /\ adjusted' = (ClampPageSize(page_size) # page_size)
    /\ start_cursor' = None
    /\ has_more' = TRUE
    /\ pc' = "loop"
    /\ UNCHANGED <<method, response_data, results, calls, replies,
                   nvalid, delivered, yielded, error, block_data, parsed, client_vars, session_vars>>

\* a later next(): the generator resumes after the yield, inside the for loop
PullNext ==
    /\ pc = YieldPc
    /\ pulls' = pulls + 1
    /\ yielded' = NoYield
    /\ pc' = "items"
    /\ UNCHANGED <<method, page_size, adjusted, start_cursor, has_more,
                   response_data, results, calls, replies, nvalid, delivered, error,
                   block_data, parsed, client_vars, session_vars>>

Pull == PullFirst \/ PullNext

Envelope(r) ==
    [outcome |-> r.outcome, error |-> r.error, shape |-> r.shape, object |-> r.object,
     iterable |-> r.iterable, has_more |-> r.has_more, next_cursor |-> r.next_cursor]

\* position after a transport call, given what it raised or returned
AfterRequest(r) ==
    IF r.outcome = "raise" THEN "raised"
    ELSE IF ~IsListEnvelope(r) THEN "raised"
    ELSE IF ~r.iterable THEN "raised"           \* len(results), for ... in results
    ELSE "items"

\* variant of RequestError: transport errors are wrapped in BetelgeuseError
RequestError_Wrapped(r, k) ==
    IF r.outcome = "raise" THEN Error("BetelgeuseError", "transport", k)
    ELSE IF ~IsListEnvelope(r) THEN Error("BetelgeuseError", "envelope", k)
    ELSE IF ~r.iterable THEN Error("TypeError", "results", k)
    ELSE NoError

\* the exception a transport call leaves the walk with, if any
RequestError(r, k) ==
    IF r.outcome = "raise" THEN Error(r.error, "transport", k)
    ELSE IF ~IsListEnvelope(r) THEN Error("BetelgeuseError", "envelope", k)
    ELSE IF ~r.iterable THEN Error("TypeError", "results", k)
    ELSE NoError

\* one pass from `while has_more` to the for loop: the transport call, the
\* envelope check and the read of results
Request ==
    /\ pc = "loop"
    /\ has_more = TRUE
    /\ Len(calls) < MaxCalls
    /\ \E r \in Replies(method, Len(calls) + 1) :
         /\ calls' = Append(calls, [page_size |-> page_size,
                                    start_cursor |-> RequestCursor(start_cursor)])
         /\ replies' = Append(replies, Envelope(r))
         /\ pc' = AfterRequest(r)
         /\ error' = RequestError(r, Len(calls) + 1)
         /\ IF AfterRequest(r) = "items"
            THEN /\ response_data' = Envelope(r)
                 /\ results' = r.results
                 /\ nvalid' = nvalid + ValidCount(method, r.results)
            ELSE UNCHANGED <<response_data, results, nvalid>>
    /\ UNCHANGED <<method, page_size, adjusted, start_cursor, has_more,
                   delivered, yielded, pulls, block_data, parsed, client_vars, session_vars>>

\* the for loop takes the next entry of results
NextItem ==
    /\ pc = "items"
    /\ results # <<>>
    /\ LET item_data == Head(results)
           out == ItemOutcome(method, item_data)
       IN  /\ results' = Tail(results)
           /\ \/ /\ out = "yield"
                 /\ pc' = YieldPc
                 /\ yielded' = YieldValue(method, item_data)
                 /\ delivered' = Append(delivered, Serial(method, nvalid, results))
                 /\ UNCHANGED error
              \/ /\ out = "skip"
                 /\ pc' = "items"
                 /\ UNCHANGED <<yielded, delivered, error>>
              \/ /\ out \notin {"yield", "skip"}
                 /\ pc' = "raised"
                 /\ error' = Error(out, "item", Len(calls))
                 /\ UNCHANGED <<yielded, delivered>>
    /\ UNCHANGED <<method, page_size, adjusted, start_cursor, has_more,
                   response_data, calls, replies, nvalid, pulls, block_data, parsed, client_vars, session_vars>>

\* results is exhausted: the pagination state is updated and the while test
\* either goes round again or lets the generator return
PageEnd ==
    /\ pc = "items"
    /\ results = <<>>
    /\ has_more' = NextHasMore(response_data)
    /\ start_cursor' = NextCursor(response_data)
    /\ pc' = IF NextHasMore(response_data) THEN "loop" ELSE "done"
    /\ UNCHANGED <<method, page_size, adjusted, response_data, results, calls,
                   replies, nvalid, delivered, yielded, error, pulls, block_data, parsed, client_vars, session_vars>>

Next == Pull \/ Request \/ NextItem \/ PageEnd

Spec == Init /\ [][Next]_vars

(***************************************************************************)
(* _parse_block_data called directly on every payload.                     *)
(***************************************************************************)
InitParse ==
    /\ method = "retrieve_block_children"
    /\ page_size = 100
    /\ InitWalk
    /\ block_data \in Payloads
    /\ parsed = Pending
    /\ InitClient

ParseCall ==
    /\ parsed = Pending
    /\ parsed' = _parse_block_data(block_data)
    /\ UNCHANGED <<walk_vars, block_data, client_vars, session_vars>>

NextParse == ParseCall

SpecParse == InitParse /\ [][NextParse]_vars

(***************************************************************************)
(* Calls of request and of the single retrievals (specification            *)
(* SpecRequest).                                                           *)
(***************************************************************************)
\* the effect of a call that reaches the transport on the credential
\* provider and on the transport
Issue(m, path) ==
    /\ auth_lookups' = auth_lookups + 1
    /\ http_calls' = Append(http_calls,
                            [method |-> m, path |-> path,
                             headers |-> MergeHeaders(_session_headers,
                                                      get_auth_headers(_token)),
                             timeout |-> settings.timeout])
    /\ _session_headers' = SessionHeadersAfter(_session_headers,
                                               get_auth_headers(_token))
    /\ UNCHANGED settings

CallRequest ==
    \E m \in DirectMethods, path \in DirectPaths :
        /\ invoked' = Invocation("request", m, path, None, Len(http_calls))
        /\ IF StartsWithSlash(path)
           THEN /\ Len(http_calls) < MaxRequests
                /\ \E t \in TransportOutcomes : outcome' = request(path, t)
                /\ Issue(m, path)
           ELSE /\ outcome' = request(path, NoResponse)
                /\ UNCHANGED <<auth_lookups, http_calls, settings, _session_headers>>
        /\ UNCHANGED <<walk_vars, session_vars, block_data, parsed, _token, held>>

CallRetrievePage ==
    /\ Len(http_calls) < MaxRequests
    /\ \E page_id \in PageIds :
        /\ invoked' = Invocation("retrieve_page", "GET",
                                 <<"/", "v1", "pages", page_id>>, page_id,
                                 Len(http_calls))
        /\ \E t \in TransportOutcomes :
               outcome' = Built(retrieve_page(page_id, t), Len(http_calls) + 1)
        /\ Issue("GET", <<"/", "v1", "pages", page_id>>)
    /\ held' = Keep(held, invoked, outcome)
    /\ UNCHANGED <<walk_vars, session_vars, block_data, parsed, _token>>

CallRetrieveDatabase ==
    /\ Len(http_calls) < MaxRequests
    /\ \E database_id \in DatabaseIds :
        /\ invoked' = Invocation("retrieve_database", "GET",
                                 <<"/", "v1", "databases", database_id>>, database_id,
                                 Len(http_calls))
        /\ \E t \in TransportOutcomes :
               outcome' = Built(retrieve_database(database_id, t), Len(http_calls) + 1)
        /\ Issue("GET", <<"/", "v1", "databases", database_id>>)
    /\ held' = Keep(held, invoked, outcome)
    /\ UNCHANGED <<walk_vars, session_vars, block_data, parsed, _token>>

\* the token setter of APITokenAuth, used between two calls
SetToken ==
    /\ \E value \in Tokens \ {_token} : _token' = value
    /\ UNCHANGED <<walk_vars, session_vars, block_data, parsed, auth_lookups, http_calls,
                   invoked, outcome, settings, _session_headers, held>>

InitRequest ==
    /\ method = "query_database"
    /\ page_size = 100
    /\ InitWalk
    /\ block_data = GoodItem
    /\ parsed = Pending
    /\ InitClient

NextRequest == CallRequest \/ CallRetrievePage \/ CallRetrieveDatabase \/ SetToken

SpecRequest == InitRequest /\ [][NextRequest]_vars

(***************************************************************************)
(* Construction of a client and walks on it, interleaved.  A consumer      *)
(* holds one generator object per slot; calling the generator function     *)
(* again replaces the object, the earlier walk being abandoned wherever    *)
(* it was.  A pull makes the generator run one pass of its while loop.     *)
(***************************************************************************)
\* one pass of the while loop of generator w, the call answered by r; seen
\* is the start_cursor of the walk in the other slot
Fetched(w, seen, r) ==
    LET cursor == IF w.pc = "start" THEN InitialCursor(seen) ELSE w.start_cursor
        sent == Append(w.sent, WalkRequest(w.args, cursor))
        got == Append(w.got, Envelope(r))
    IN  IF AfterRequest(r) = "raised"
        THEN Generator(w.args, w.serial, "raised", cursor, TRUE, sent, got)
        ELSE Generator(w.args, w.serial,
                       IF NextHasMore(r) THEN "loop" ELSE "done",
                       NextCursor(r), NextHasMore(r), sent, got)

InitSession ==
    /\ method = "query_database"
    /\ page_size = 100
    /\ InitWalk
    /\ block_data = GoodItem
    /\ parsed = Pending
    /\ _token = None
    /\ InitTransport
    /\ client = NoClient
    /\ walks = [slot \in Slots |-> NoWalk]
    /\ started = 0

\* NotionClient(auth_token), with the environment and the faults it meets
Construct ==
    /\ client.state = "none"
    /\ \E auth_token \in TokenArgs, env \in EnvTokens,
          auth_fault \in AuthFaults, api_fault \in ApiFaults :
          /\ client' = NotionClient(auth_token, env, auth_fault, api_fault)
          /\ _token' = client'._token
    /\ UNCHANGED <<walk_vars, block_data, parsed, auth_lookups, http_calls, invoked,
                   outcome, settings, _session_headers, held, walks, started>>

\* query_database(...) or retrieve_block_children(...): a generator object
\* is made, none of its body runs
StartWalk(slot) ==
    /\ client.state = "built"
    /\ started < MaxWalks
    /\ \E a \in WalkArgs :
          walks' = [walks EXCEPT
                       ![slot] = Generator(a, started + 1, "start", None, TRUE, <<>>, <<>>)]
    /\ started' = started + 1
    /\ UNCHANGED <<walk_vars, block_data, parsed, client_vars, client>>

\* the consumer of the walk in slot pulls: one transport call and its reply
Fetch(slot) ==
    /\ walks[slot].pc \in {"start", "loop"}
    /\ Len(walks[slot].sent) < MaxWalkCalls
    /\ \E other \in Slots \ {slot} :
       \E r \in WalkReplies(walks[slot].serial, Len(walks[slot].sent) + 1) :
          walks' = [walks EXCEPT
                       ![slot] = Fetched(walks[slot], walks[other].start_cursor, r)]
    /\ UNCHANGED <<walk_vars, block_data, parsed, client_vars, client, started>>

NextSession ==
    \/ Construct
    \/ \E slot \in Slots : StartWalk(slot)
    \/ \E slot \in Slots : Fetch(slot)

SpecSession == InitSession /\ [][NextSession]_vars


(***************************************************************************)
(* Properties of the pagination walk (specification Spec).                 *)
(***************************************************************************)
\* reply i is a list page whose results were read
ListPage(i) ==
    /\ replies[i].outcome = "return"
    /\ replies[i].shape = "object"
    /\ replies[i].object = "list"
    /\ replies[i].iterable

\* every page before the last that reports has_more=true gives a cursor
CursorsGiven ==
    \A i \in 1..(Len(replies) - 1) :
        replies[i].has_more = "true" => replies[i].next_cursor \notin {None, ""}

\* C1: when pages 1..N-1 report has_more=true with a non-empty next_cursor
\* and page N reports has_more=false, draining the walk causes exactly N
\* transport calls: one call per page, none after a page that did not report
\* has_more=true, the drained walk ends at such a page; call 1 carries no
\* start_cursor and call i+1 carries the next_cursor of response i.
C1_CursorChain ==
    CursorsGiven =>
        /\ Len(calls) = Len(replies)
        /\ \A i \in 1..Len(calls) :
              calls[i].start_cursor =
                  IF i = 1 THEN None ELSE replies[i - 1].next_cursor
        /\ \A i \in 1..(Len(replies) - 1) :
              ListPage(i) /\ replies[i].has_more = "true"
        /\ pc = "done" =>
              /\ Len(replies) >= 1
              /\ ListPage(Len(replies))
              /\ replies[Len(replies)].has_more # "true"

C1_Witness ==
    /\ pc = "done"
    /\ Len(calls) = 3
    /\ replies[1].has_more = "true" /\ replies[2].has_more = "true"
    /\ replies[3].has_more = "false"
    /\ calls[1].start_cursor = None
    /\ calls[2].start_cursor = "c1"
    /\ calls[3].start_cursor = "c2"

\* C2: if transport call k (k > 1) raises NotionAPIError or NotionRequestError,
\* the consumer has received exactly the valid items of pages 1..k-1, the
\* error that reaches it is the one the transport raised, and the walk issues
\* no call k+1.
C2_MidStreamFailure ==
    /\ [](\A k \in 2..Len(replies) :
            (replies[k].outcome = "raise"
               /\ replies[k].error \in {"NotionAPIError", "NotionRequestError"})
            => /\ k = Len(replies)
               /\ k = Len(calls)
               /\ pc = "raised"
               /\ error = [type |-> replies[k].error, at |-> "transport", call |-> k]
               /\ delivered = FirstN(nvalid))
    /\ [][pc = "raised" => (calls' = calls /\ delivered' = delivered)]_vars

C2_Witness ==
    /\ Len(replies) = 2
    /\ replies[2].outcome = "raise"
    /\ replies[2].error = "NotionAPIError"
    /\ pc = "raised"
    /\ error.type = "NotionAPIError"
    /\ delivered = <<1, 2>>

\* the entry the for loop takes next fails validation: Page validation in
\* query_database, the block factory raising BetelgeuseError in
\* retrieve_block_children
NextItemFailsValidation ==
    /\ pc = "items"
    /\ results # <<>>
    /\ IF method = "query_database"
       THEN ~PageValidates(Head(results))
       ELSE _parse_block_data(Head(results)).error = "BetelgeuseError"

\* C3: a results item that fails validation is skipped: nothing is delivered
\* for it, no error reaches the consumer for it, and the walk goes on with
\* the entries and pages that follow.
C3_InvalidItemSkipped ==
    [][NextItemFailsValidation =>
          /\ pc' = "items"
          /\ results' = Tail(results)
          /\ delivered' = delivered
          /\ error' = NoError]_vars

\* C4: a page response that is not an object whose object field is "list"
\* makes the walk raise BetelgeuseError and end: no item of that response is
\* delivered, the items of the earlier pages have been delivered, and no
\* further transport call is issued.
C4_MalformedEnvelope ==
    /\ [](\A k \in 1..Len(replies) :
            (replies[k].outcome = "return"
               /\ ~(replies[k].shape = "object" /\ replies[k].object = "list"))
            => /\ k = Len(replies)
               /\ k = Len(calls)
               /\ pc = "raised"
               /\ error = [type |-> "BetelgeuseError", at |-> "envelope", call |-> k]
               /\ delivered = FirstN(nvalid))
    /\ [][pc = "raised" => (calls' = calls /\ delivered' = delivered /\ pc' = "raised")]_vars

C4_Witness ==
    /\ Len(replies) = 2
    /\ replies[2].outcome = "return"
    /\ replies[2].object = "page"
    /\ pc = "raised"
    /\ error.at = "envelope"
    /\ delivered = <<1>>

\* C5: every transport call of a walk carries page_size = p when the argument
\* p is in 1..100 and page_size = 100 for any other argument, the same value
\* in all calls, never one outside 1..100.  (Before the first pull page_size
\* holds the argument; the first pull settles the value in use.)
C5_PageSizeClamped ==
    /\ [][pc = "start" =>
            page_size' = IF page_size \in 1..100 THEN page_size ELSE 100]_vars
    /\ [][pc # "start" => page_size' = page_size]_vars
    /\ [](\A i \in 1..Len(calls) :
            calls[i].page_size = page_size /\ calls[i].page_size \in 1..100)

C5_Witness ==
    /\ adjusted
    /\ Len(calls) = 3
    /\ \A i \in 1..3 : calls[i].page_size = 100

\* C6: the walk is pull-driven with no read-ahead: no transport call before
\* the consumer's first pull; a call is issued only inside a pull, one made
\* after every valid item of the pages received so far was delivered; a walk
\* that is not being pulled issues no call.
C6_PullDriven ==
    /\ [](pulls = 0 => calls = <<>>)
    /\ [][calls' # calls =>
            /\ pc = "loop"
            /\ delivered = FirstN(nvalid)
            /\ pulls = Len(delivered) + 1]_vars
    /\ [][(pc \in {"start", "yielded", "done", "raised"}) => (calls' = calls)]_vars

C6_Witness ==
    /\ pc = "yielded"
    /\ Len(calls) = 2
    /\ delivered = <<1, 2, 3>>
    /\ pulls = 3

\* C7: when a list page has has_more false, or no has_more field, the walk
\* ends normally once the page's entries are done, all valid items delivered:
\* no further transport call is issued, whatever next_cursor the page carried.
C7_StopsWithoutHasMore ==
    /\ [](\A i \in 1..Len(replies) :
            (ListPage(i) /\ replies[i].has_more \in {"false", None})
            => i = Len(calls))
    /\ [](pc = "done" => delivered = FirstN(nvalid))
    /\ [][(pc = "items" /\ results = <<>>
             /\ response_data.has_more \in {"false", None})
          => (pc' = "done" /\ calls' = calls /\ delivered' = delivered)]_vars
    /\ [][pc = "done" => (pc' = "done" /\ calls' = calls)]_vars

C7_Witness ==
    /\ pc = "done"
    /\ Len(replies) = 1
    /\ replies[1].has_more = None
    /\ replies[1].next_cursor = "c1"
    /\ delivered = <<1, 2>>

(***************************************************************************)
(* Properties of the block factory.                                        *)
(***************************************************************************)
\* C8: _parse_block_data is a linear fallback chain over a block payload: the
\* typed variant exactly when the type is in BLOCK_TYPE_MAP and the variant
\* validates; otherwise a generic Block exactly when generic validation
\* succeeds; otherwise BetelgeuseError; at most one attempt of each kind.
C8_FallbackChain ==
    (parsed # Pending /\ block_data.shape = "object") =>
        LET p == block_data
            tagged == p.object \in {"block", None}
            typed == p.type \in KnownTypes /\ p.common /\ p.specific /\ tagged
            generic == p.common /\ tagged
                       /\ p.type \in KnownTypes \cup UnknownTypes \cup {""}
        IN  /\ parsed.attempts \in {<<"specific">>, <<"Block">>, <<"specific", "Block">>}
            /\ IF typed
               THEN parsed.outcome = "return" /\ parsed.cls = p.type
               ELSE IF generic
               THEN parsed.outcome = "return" /\ parsed.cls = "Block"
               ELSE parsed.outcome = "raise" /\ parsed.error = "BetelgeuseError"

\* a block payload with valid common fields and a string type that is not in
\* BLOCK_TYPE_MAP
UnmappedBlock(p) ==
    /\ p.shape = "object"
    /\ p.object \in {"block", None}
    /\ p.common
    /\ p.type \in UnknownTypes \cup {""}

\* C9: for a block payload with valid common fields and a string type absent
\* from BLOCK_TYPE_MAP, _parse_block_data returns a generic Block with the
\* payload's type and raises nothing; retrieve_block_children delivers such a
\* block to the consumer.  (The first conjunct does not depend on the walk and
\* is evaluated where a walk starts.)
C9_UnknownTypeGeneric ==
    /\ [](pc = "start" =>
          \A p \in Payloads :
            UnmappedBlock(p) =>
               /\ _parse_block_data(p).outcome = "return"
               /\ _parse_block_data(p).cls = "Block"
               /\ _parse_block_data(p).type = p.type)
    /\ [][(method = "retrieve_block_children" /\ pc = "items" /\ results # <<>>
             /\ UnmappedBlock(Head(results)))
          => /\ pc' = "yielded"
             /\ yielded' = [cls |-> "Block", type |-> Head(results).type,
                             object |-> "block"]
             /\ delivered' = Append(delivered, Len(delivered) + 1)]_vars

C9_Witness ==
    /\ method = "retrieve_block_children"
    /\ pc = "yielded"
    /\ yielded = [cls |-> "Block", type |-> "image", object |-> "block"]
    /\ delivered = <<1>>

\* C10: a block payload with no type field and valid common fields is handled
\* like an unrecognised type: the specific variant is skipped and a generic
\* Block is returned without raising.
C10_MissingTypeGeneric ==
    (parsed # Pending /\ block_data.shape = "object"
       /\ block_data.object \in {"block", None}
       /\ block_data.type = None /\ block_data.common)
    => /\ parsed.attempts = <<"Block">>
       /\ parsed.outcome = "return"
       /\ parsed.cls = "Block"

(***************************************************************************)
(* Properties of request and of the single retrievals (specification       *)
(* SpecRequest).                                                           *)
(***************************************************************************)
\* the latest call reached the transport and got a response
Responded == outcome.sent /\ outcome.received.raised = None

\* the response received is a failure response (4xx/5xx)
FailureResponse == Responded /\ outcome.received.status \in 400..599

\* the response received is a success response
SuccessfulResponse == Responded /\ outcome.received.status \in 200..299

\* C11: request called with a path that does not begin with "/" raises
\* BetelgeuseError, issues no transport call and no credential lookup, and
\* leaves the client as it was before the call.
C11_BadPathRejected ==
    [][(invoked'.op = "request"
          /\ (invoked'.path = <<>> \/ Head(invoked'.path) # "/")
          /\ (invoked' # invoked \/ outcome' # outcome))
       => /\ outcome'.outcome = "raise"
          /\ outcome'.error.type = "BetelgeuseError"
          /\ ~outcome'.sent
          /\ http_calls' = http_calls
          /\ auth_lookups' = auth_lookups
          /\ _token' = _token]_vars

C11_Witness ==
    /\ invoked.op = "request"
    /\ invoked.path = <<"v1", "users">>
    /\ outcome.error.type = "BetelgeuseError"
    /\ Len(http_calls) = 1
    /\ auth_lookups = 1

\* C12: for a failure response (4xx/5xx) whose body is a JSON object holding
\* code and message, request raises NotionAPIError with the status of the
\* response, the code of the body and the message of the body.
C12_StructuredApiError ==
    (invoked.op = "request" /\ FailureResponse
       /\ outcome.received.body.kind = "json"
       /\ outcome.received.body.doc.shape = "object"
       /\ outcome.received.body.doc.code # None
       /\ outcome.received.body.doc.message # None)
    => /\ outcome.outcome = "raise"
       /\ outcome.error.type = "NotionAPIError"
       /\ outcome.error.status_code = outcome.received.status
       /\ outcome.error.error_code = outcome.received.body.doc.code
       /\ outcome.error.message.fmt = outcome.received.body.doc.message

C12_Witness ==
    /\ invoked.op = "request"
    /\ outcome.received.status = 404
    /\ outcome.received.body.doc.code = "object_not_found"
    /\ outcome.error.type = "NotionAPIError"
    /\ outcome.error.status_code = 404
    /\ outcome.error.error_code = "object_not_found"
    /\ outcome.error.message.fmt = "Could not find page."

\* C13: for a failure response whose body is not JSON, or is a JSON object
\* lacking the code or the message key, request raises NotionAPIError with
\* the status of the response, error_code "unknown_error_format" and a
\* message holding at most the first 200 characters of the raw body.
C13_UnknownErrorFormat ==
    (invoked.op = "request" /\ FailureResponse
       /\ \/ outcome.received.body.kind \in {"empty", "text"}
          \/ /\ outcome.received.body.kind = "json"
             /\ outcome.received.body.doc.shape = "object"
             /\ \/ outcome.received.body.doc.code = None
                \/ outcome.received.body.doc.message = None)
    => /\ outcome.outcome = "raise"
       /\ outcome.error.type = "NotionAPIError"
       /\ outcome.error.status_code = outcome.received.status
       /\ outcome.error.error_code = "unknown_error_format"
       /\ outcome.error.message.excerpt <= 200

\* C14: for a success response whose status is 204 or whose body is empty,
\* request returns an empty object and raises nothing, the body not decoded.
C14_NoContentEmptyObject ==
    (invoked.op = "request" /\ SuccessfulResponse
       /\ (outcome.received.status = 204 \/ outcome.received.body.len = 0))
    => /\ outcome.outcome = "return"
       /\ outcome.value = [kind |-> "json", cls |-> None, object |-> None, instance |-> 0,
                           doc |-> [shape |-> "object", object |-> None,
                                    common |-> FALSE, code |-> None,
                                    message |-> None]]
       /\ ~outcome.decoded

C14_Witness ==
    /\ invoked.op = "request"
    /\ outcome.received.status = 200
    /\ outcome.received.body.kind = "empty"
    /\ outcome.outcome = "return"
    /\ ~outcome.decoded

\* C15: for a success response with a non-empty body that is no JSON, request
\* raises a BetelgeuseError that is neither a NotionAPIError nor a
\* NotionRequestError, the decode error being its cause.
C15_SuccessDecodeFailure ==
    (invoked.op = "request" /\ SuccessfulResponse
       /\ outcome.received.status # 204
       /\ outcome.received.body.kind = "text")
    => /\ outcome.outcome = "raise"
       /\ outcome.error.type = "BetelgeuseError"
       /\ outcome.error.cause = "JSONDecodeError"

C15_Witness ==
    /\ invoked.op = "request"
    /\ outcome.received.status = 200
    /\ outcome.received.body.kind = "text"
    /\ outcome.received.body.len = 201
    /\ outcome.error.type = "BetelgeuseError"
    /\ outcome.error.message.excerpt = 200

\* C16: one call of request, retrieve_page or retrieve_database makes at most
\* one transport call; when the transport raises a network-level exception
\* the call raises NotionRequestError with that exception as its cause, one
\* transport call made and no second attempt.
C16_NoRetry ==
    /\ invoked.op # None =>
          Len(http_calls) = invoked.calls_before + (IF outcome.sent THEN 1 ELSE 0)
    /\ (outcome.sent /\ outcome.received.raised # None) =>
          /\ outcome.outcome = "raise"
          /\ outcome.error.type = "NotionRequestError"
          /\ outcome.error.cause = outcome.received.raised
          /\ Len(http_calls) = invoked.calls_before + 1

C16_Witness ==
    /\ invoked.op = "retrieve_page"
    /\ outcome.received.raised = "Timeout"
    /\ outcome.error.type = "NotionRequestError"
    /\ outcome.error.cause = "Timeout"
    /\ invoked.calls_before = 1
    /\ Len(http_calls) = 2

\* C17: every failure that reaches a caller of request, retrieve_page or
\* retrieve_database is a NotionRequestError, a NotionAPIError or a plain
\* BetelgeuseError, whatever the status and the body of the response.
C17_OnlyLibraryErrors ==
    outcome.outcome = "raise" =>
        outcome.error.type \in {"NotionRequestError", "NotionAPIError", "BetelgeuseError"}

\* C18: every transport call carries Authorization = "Bearer " + the token
\* the credential provider holds when the request is made, looked up once for
\* that request: after a change of the token the next call carries the new one.
C18_FreshAuthHeader ==
    [][http_calls' # http_calls
       => /\ Len(http_calls') = Len(http_calls) + 1
          /\ http_calls'[Len(http_calls')].headers.Authorization = <<"Bearer ", _token>>
          /\ auth_lookups' = auth_lookups + 1
          /\ \A i \in 1..Len(http_calls) : http_calls'[i] = http_calls[i]]_vars

C18_Witness ==
    /\ Len(http_calls) = 2
    /\ http_calls[1].headers.Authorization = <<"Bearer ", "secret_a">>
    /\ http_calls[2].headers.Authorization = <<"Bearer ", "secret_b">>
    /\ _token = "secret_b"

\* the path a single retrieval asks for
RetrievalPath ==
    <<"/", "v1", IF invoked.op = "retrieve_page" THEN "pages" ELSE "databases",
      invoked.id>>

\* the tag a single retrieval expects
RetrievalTag == IF invoked.op = "retrieve_page" THEN "page" ELSE "database"

\* the response a single retrieval received is decoded and fails validation
InvalidRetrieved ==
    /\ SuccessfulResponse
    /\ \/ outcome.received.status = 204
       \/ outcome.received.body.kind = "empty"
       \/ /\ outcome.received.body.kind = "json"
          /\ \/ outcome.received.body.doc.shape # "object"
             \/ ~outcome.received.body.doc.common
             \/ outcome.received.body.doc.object \notin {RetrievalTag, None}

\* C19: retrieve_page and retrieve_database issue exactly one GET transport
\* call; a NotionAPIError or NotionRequestError raised by it reaches the caller
\* as the very same error object; a validation failure of the response reaches
\* the caller as a BetelgeuseError whose message holds the requested id and
\* whose cause is the validation error.
C19_SingleRetrieval ==
    invoked.op \in {"retrieve_page", "retrieve_database"} =>
        /\ Len(http_calls) = invoked.calls_before + 1
        /\ http_calls[Len(http_calls)].method = "GET"
        /\ http_calls[Len(http_calls)].path = RetrievalPath
        /\ request(RetrievalPath, outcome.received).error.type
              \in {"NotionAPIError", "NotionRequestError"}
           => /\ outcome.outcome = "raise"
              /\ outcome.error = request(RetrievalPath, outcome.received).error
              /\ outcome.error.raised_by = "request"
        /\ InvalidRetrieved
           => /\ outcome.outcome = "raise"
              /\ outcome.error.type = "BetelgeuseError"
              /\ outcome.error.raised_by = invoked.op
              /\ \E i \in DOMAIN outcome.error.message.args :
                    outcome.error.message.args[i] = invoked.id
              /\ outcome.error.cause = "ValidationError"

C19_Witness ==
    /\ invoked.op = "retrieve_page"
    /\ invoked.id = "p1"
    /\ outcome.received.status = 404
    /\ outcome.error.type = "NotionAPIError"
    /\ outcome.error.raised_by = "request"
    /\ outcome.error.error_code = "object_not_found"

\* the tag of the items a walk delivers
ItemTag(m) == IF m = "query_database" THEN "page" ELSE "block"

\* C20: no operation returns or delivers an object of the wrong declared
\* kind: what retrieve_page returns has object = "page", what
\* retrieve_database returns object = "database", what query_database
\* delivers object = "page" and what retrieve_block_children delivers
\* object = "block"; a payload carrying any other object tag is rejected by a
\* single retrieval and skipped as a list item.  (The list items are every
\* payload put through one turn of the for loop of either walk; that
\* conjunct does not depend on the calls made and is evaluated before the
\* first of them.)
C20_NoWrongKind ==
    /\ (invoked.op \in {"retrieve_page", "retrieve_database"}
          /\ outcome.outcome = "return")
       => /\ outcome.value.cls = (IF invoked.op = "retrieve_page" THEN "Page"
                                  ELSE "Database")
          /\ outcome.value.object = RetrievalTag
          /\ outcome.received.body.doc.object \in {RetrievalTag, None}
    /\ (invoked.op \in {"retrieve_page", "retrieve_database"}
          /\ SuccessfulResponse
          /\ outcome.received.status # 204
          /\ outcome.received.body.kind = "json"
          /\ outcome.received.body.doc.object \notin {RetrievalTag, None})
       => /\ outcome.outcome = "raise"
          /\ outcome.error.type = "BetelgeuseError"
    /\ invoked = NoInvocation =>
          \A m \in Methods : \A p \in Payloads :
              /\ ItemOutcome(m, p) = "yield" =>
                    /\ YieldValue(m, p).object = ItemTag(m)
                    /\ p.object \in {ItemTag(m), None}
              /\ (p.shape = "object" /\ p.object \notin {ItemTag(m), None}) =>
                    ItemOutcome(m, p) = "skip"

C20_Witness ==
    /\ invoked.op = "retrieve_page"
    /\ outcome.received.status = 200
    /\ outcome.received.body.doc.object = "database"
    /\ outcome.received.body.doc.common
    /\ outcome.outcome = "raise"
    /\ outcome.error.type = "BetelgeuseError"
    /\ outcome.error.cause = "ValidationError"

(***************************************************************************)
(* Further properties of the pagination walk (specification Spec).         *)
(***************************************************************************)
\* C26: an entry of results that is no JSON object (a string, a number, null,
\* a list) is skipped like any other invalid item, in both walks: nothing is
\* delivered for it, no error reaches the consumer and the walk goes on with
\* the entries that follow.
C26_NonObjectSkipped ==
    [][(pc = "items" /\ results # <<>> /\ Head(results).shape # "object")
       => /\ pc' = "items"
          /\ results' = Tail(results)
          /\ delivered' = delivered
          /\ error' = NoError]_vars

\* C28: when a list page reports has_more=true with next_cursor absent, null
\* or empty, the request that follows carries no start_cursor and equals the
\* first request of the walk; the walk ends normally only at a response whose
\* has_more is false or absent, and otherwise only with an error.
C28_HasMoreWithoutCursor ==
    /\ \A i \in 1..Len(replies) :
          (ListPage(i) /\ replies[i].has_more = "true"
             /\ replies[i].next_cursor \in {None, ""} /\ i < Len(calls))
          => /\ calls[i + 1].start_cursor = None
             /\ calls[i + 1] = calls[1]
    /\ pc = "done" =>
          /\ Len(replies) >= 1
          /\ replies[Len(replies)].has_more \in {"false", None}
    /\ pc = "raised" => error # NoError
    /\ (pc = "loop" /\ replies # <<>>) => replies[Len(replies)].has_more = "true"

C28_Witness ==
    /\ Len(calls) = 3
    /\ replies[1].has_more = "true" /\ replies[1].next_cursor = None
    /\ replies[2].has_more = "true" /\ replies[2].next_cursor = ""
    /\ calls[2].start_cursor = None
    /\ calls[3].start_cursor = None

\* C29: what a walk has delivered is at every moment a prefix of the valid
\* items of its pages, in call order and results order: nothing is delivered
\* twice or out of order, and no valid item before the walk's position is
\* left out.
C29_DeliveredIsPrefix ==
    /\ delivered = FirstN(Len(delivered))
    /\ Len(delivered) <= nvalid
    /\ pc \in {"items", "yielded"} =>
          Len(delivered) = nvalid - ValidCount(method, results)
    /\ pc \in {"loop", "done"} => Len(delivered) = nvalid

C29_Witness ==
    /\ method = "retrieve_block_children"
    /\ pc = "done"
    /\ Len(calls) = 2
    /\ delivered = <<1, 2, 3>>
    /\ yielded = [cls |-> None, type |-> None, object |-> None]

(***************************************************************************)
(* Further properties of request and of the single retrievals              *)
(* (specification SpecRequest).                                            *)
(***************************************************************************)
\* the latest call is a single retrieval
IsRetrieval == invoked.op \in {"retrieve_page", "retrieve_database"}

\* the model object held from the earlier retrieval came from the same
\* function and the same id as the latest call
SameRetrievalAgain == IsRetrieval /\ held.op = invoked.op /\ held.id = invoked.id

C25_Non2xxRaises ==
    (invoked.op = "request" /\ Responded) =>
       /\ ~SuccessfulResponse =>
             /\ outcome.outcome = "raise"
             /\ outcome.error.type = "NotionAPIError"
       /\ SuccessfulResponse =>
             ~(outcome.outcome = "raise" /\ outcome.error.type = "NotionAPIError")

\* C27: request leaves what the client stores as it was after construction:
\* after any sequence of requests, successful or failed, base_url,
\* notion_version, timeout and the session's default headers have their
\* values of construction, and the session's default headers hold no
\* Authorization entry.
C27_StoredStateUnchanged ==
    /\ settings = ConstructedSettings
    /\ "Authorization" \notin DOMAIN _session_headers
    /\ _session_headers = _get_common_headers(ConstructedSettings.notion_version)

C27_Witness ==
    /\ Len(http_calls) = 2
    /\ "Authorization" \in DOMAIN http_calls[1].headers
    /\ "Authorization" \in DOMAIN http_calls[2].headers
    /\ "Authorization" \notin DOMAIN _session_headers
    /\ held # NoHeld
    /\ outcome.outcome = "raise"
    /\ outcome.error.type = "NotionAPIError"

\* a success response that has no body: status 204 or empty content
NoBodySuccess(t) ==
    /\ t.raised = None
    /\ t.status \in 200..299
    /\ (t.status = 204 \/ t.body.kind = "empty")

\* C30: a success response with no body (status 204 or empty body) never
\* becomes a domain object or an empty result list: retrieve_page and
\* retrieve_database raise BetelgeuseError carrying the id, and a pagination
\* walk that receives what request returns for such a response raises
\* BetelgeuseError for an unexpected response format at that call.
C30_NoBodyIsNoObject ==
    /\ (IsRetrieval /\ outcome.sent /\ NoBodySuccess(outcome.received))
       => /\ outcome.outcome = "raise"
          /\ outcome.value = NoValue
          /\ outcome.error.type = "BetelgeuseError"
          /\ outcome.error.raised_by = invoked.op
          /\ outcome.error.message.args = <<invoked.id>>
    /\ invoked = NoInvocation =>
          \A t \in TransportOutcomes, path \in {<<"/", "v1", "databases", "d1", "query">>,
                                               <<"/", "v1", "blocks", "p1", "children">>} :
             NoBodySuccess(t) =>
                LET r == request(path, t)
                    reply == ReturnReply(r.value.doc.shape, r.value.doc.object,
                                         TRUE, <<>>, None, None)
                IN  /\ r.outcome = "return"
                    /\ ~IsListEnvelope(r.value.doc)
                    /\ AfterRequest(reply) = "raised"
                    /\ RequestError(reply, 1) = Error("BetelgeuseError", "envelope", 1)

C30_Witness ==
    /\ invoked.op = "retrieve_database"
    /\ outcome.sent
    /\ outcome.received.raised = None
    /\ outcome.received.status = 204
    /\ outcome.outcome = "raise"
    /\ outcome.error.type = "BetelgeuseError"
    /\ outcome.error.message.args = <<"d1">>

(***************************************************************************)
(* Properties of construction and of interleaved walks (specification      *)
(* SpecSession).                                                           *)
(***************************************************************************)
\* the dict in which a request carries page_size and start_cursor
Carried(q) == IF q.json_data.given THEN q.json_data.dict ELSE q.query_params.dict

\* C21: two pagination walks on one client, pulled in any interleaving, do
\* not affect each other: the first request of every walk carries no
\* start_cursor, whatever walks ran, finished or were abandoned before it,
\* and every later request carries at most the cursor that the walk's own
\* previous response held, never one handed to another walk.
C21_WalksIndependent ==
    \A slot \in Slots :
       LET w == walks[slot]
       IN  /\ Len(w.got) = Len(w.sent)
           /\ w.sent # <<>> => "start_cursor" \notin DOMAIN Carried(w.sent[1])
           /\ \A i \in 2..Len(w.sent) :
                 "start_cursor" \in DOMAIN Carried(w.sent[i])
                 => /\ Carried(w.sent[i]).start_cursor = w.got[i - 1].next_cursor
                    /\ Carried(w.sent[i]).start_cursor = WalkCursors[w.serial][i - 1]
           /\ \A i \in 1..Len(w.sent) :
                 /\ w.sent[i].path[4] = w.args.id
                 /\ Carried(w.sent[i]).page_size = ClampPageSize(w.args.page_size)

C21_Witness ==
    /\ started = 3
    /\ walks[1].serial = 3 /\ walks[2].serial = 2
    /\ walks[1].args.fn = "query_database"
    /\ walks[2].args.fn = "retrieve_block_children"
    /\ Len(walks[1].sent) = 2 /\ Len(walks[2].sent) = 2
    /\ "start_cursor" \in DOMAIN Carried(walks[1].sent[2])
    /\ "start_cursor" \in DOMAIN Carried(walks[2].sent[2])
    /\ Carried(walks[1].sent[2]).start_cursor = "w3c1"
    /\ Carried(walks[2].sent[2]).start_cursor = "w2c1"

\* C22: the constructor of NotionClient sets up the credentials before the
\* transport client: when the credential setup raises AuthenticationError,
\* that very error propagates and BaseAPIClient is never constructed; when
\* the construction of BaseAPIClient raises any exception, the constructor
\* raises AuthenticationError with that exception as its cause; a
\* constructor that raised returns no client, so no walk runs on one.
C22_ConstructionOrder ==
    /\ client.state = "built" =>
          /\ client.auth /\ client._api_client /\ client.api_calls = 1
          /\ client.error = NoExc
          /\ client._token \notin {None, ""}
    /\ client.state = "failed" =>
          /\ ~client._api_client
          /\ client.error.type = "AuthenticationError"
          /\ ~client.auth => client.api_calls = 0
          /\ client.auth =>
                /\ client.api_calls = 1
                /\ client.error.raised_by = "NotionClient"
                /\ client.error.cause \in ApiFaults \ {None}
          /\ started = 0
          /\ \A slot \in Slots : walks[slot] = NoWalk
    /\ client.state = "none" =>
          \A auth_token \in TokenArgs, env \in EnvTokens,
             auth_fault \in AuthFaults, api_fault \in ApiFaults :
             LET a == APITokenAuth(auth_token, env, auth_fault)
                 c == NotionClient(auth_token, env, auth_fault, api_fault)
             IN  /\ (a.outcome = "raise" /\ a.error.type = "AuthenticationError")
                    => /\ c.state = "failed"
                       /\ c.error = a.error
                       /\ c.api_calls = 0
                 /\ (a.outcome = "return" /\ api_fault # None)
                    => /\ c.state = "failed"
                       /\ c.error.type = "AuthenticationError"
                       /\ c.error.raised_by = "NotionClient"
                       /\ c.error.cause = api_fault
                 /\ c.state = "built" <=> (a.outcome = "return" /\ api_fault = None)

C22_Witness ==
    /\ client.state = "failed"
    /\ client.auth
    /\ client.api_calls = 1
    /\ client.error.type = "AuthenticationError"
    /\ client.error.cause = "TypeError"

\* every request of every walk has the form of its endpoint; Supplied says
\* of a value of filter_data or sorts_data whether the requests carry it
RequestsCarry(Supplied(_)) ==
    \A slot \in Slots :
       LET w == walks[slot]
       IN  \A i \in 1..Len(w.sent) :
              LET q == w.sent[i]
                  cursor == IF i = 1 THEN None ELSE w.got[i - 1].next_cursor
              IN  /\ "page_size" \in DOMAIN Carried(q)
                  /\ "start_cursor" \in DOMAIN Carried(q) <=> cursor \notin {None, ""}
                  /\ "start_cursor" \in DOMAIN Carried(q)
                        => Carried(q).start_cursor = cursor
                  /\ w.args.fn = "query_database" =>
                        /\ q.method = "POST"
                        /\ q.path = <<"/", "v1", "databases", w.args.id, "query">>
                        /\ q.json_data.given /\ ~q.query_params.given
                        /\ DOMAIN q.json_data.dict
                              \subseteq {"page_size", "start_cursor", "filter", "sorts"}
                        /\ "filter" \in DOMAIN q.json_data.dict
                              <=> Supplied(w.args.filter_data)
                        /\ "sorts" \in DOMAIN q.json_data.dict
                              <=> Supplied(w.args.sorts_data)
                        /\ "filter" \in DOMAIN q.json_data.dict
                              => q.json_data.dict.filter = w.args.filter_data
                        /\ "sorts" \in DOMAIN q.json_data.dict
                              => q.json_data.dict.sorts = w.args.sorts_data
                  /\ w.args.fn = "retrieve_block_children" =>
                        /\ q.method = "GET"
                        /\ q.path = <<"/", "v1", "blocks", w.args.id, "children">>
                        /\ q.query_params.given /\ ~q.json_data.given
                        /\ DOMAIN q.query_params.dict
                              \subseteq {"page_size", "start_cursor"}

\* C23 as stated: every request of a query_database walk is a POST to
\* /v1/databases/{id}/query with page_size and start_cursor in the JSON body
\* and no query parameters, the caller's filter and sorts unchanged in every
\* request, each present exactly when supplied; every request of a
\* retrieve_block_children walk is a GET to /v1/blocks/{id}/children with
\* page_size and start_cursor as query parameters and no body.
C23_AsStated == RequestsCarry(LAMBDA v : v # None)

\* C23: as above, with filter and sorts each present exactly when supplied
\* and not empty.
C23_RequestForm == RequestsCarry(LAMBDA v : v \notin {None, "{}", "[]"})

C23_Witness ==
    /\ walks[1].args.fn = "query_database"
    /\ walks[1].args.filter_data = "{}"
    /\ walks[1].args.sorts_data = "[]"
    /\ Len(walks[1].sent) = 2
    /\ DOMAIN walks[1].sent[2].json_data.dict = {"page_size", "start_cursor"}
    /\ walks[2].args.fn = "retrieve_block_children"
    /\ Len(walks[2].sent) = 2
    /\ DOMAIN walks[2].sent[1].query_params.dict = {"page_size"}

=============================================================================
